---------------------------- MODULE Spec2Model ----------------------------
(***************************************************************************)
(* A model of reWeFDE's density-estimation and leakage-estimation core:    *)
(*   src/info_leakage/kde_wrapper.py     class AKDE                         *)
(*   src/analysis/fingerprint_modeler.py class WebsiteFingerprintModeler    *)
(*                                                                         *)
(* Numbers.  Floating-point values are records [k, v]: k is "fin", "nan"   *)
(* or "inf" and v is the value in thousandths (0.001 is v = 1), so that    *)
(* the program's constant 0.001, an exact zero, NaN and infinity are all   *)
(* distinct values.  Feature values are small integers (whole units).      *)
(*                                                                         *)
(* Interpreter.  The sources run under Python 2 and under Python 3 with    *)
(* different results in two places: "-1 / (4 + dim)" (floor division in    *)
(* Python 2, true division in Python 3) and "except not KeyboardInterrupt" *)
(* (no handler matches in Python 2, a TypeError replaces the exception in  *)
(* Python 3).  The variable build holds the interpreter of the run.        *)
(***************************************************************************)
EXTENDS Integers, Sequences, FiniteSets, TLC

VARIABLES
    build,        \* the interpreter the program runs under
    akde,         \* the AKDE object: its fitted state (kde_wrapper.py 28-40)
    sampleCall,   \* the last call of AKDE.sample: arguments, draws, result
    predictCall,  \* the last call of AKDE.predict: argument and result
    modeler,      \* the WebsiteFingerprintModeler: its data and sample_size
    leakCall,     \* the last call of information_leakage: argument and result
    measure       \* a run of individual_measure and the checkpoint file

vars == <<build, akde, sampleCall, predictCall, modeler, leakCall, measure>>

-----------------------------------------------------------------------------
(* Bounds of the model *)

\* the largest number of kernels (rows of the data) of a fitted AKDE
MaxKernels == 3
\* the largest n_samples passed to AKDE.sample
MaxSamples == 3

\* feature dimensionalities of the fitted data
Dims == {1, 2}
\* feature values of the fitted data
DataVals == {0, 1}
\* the interpreters; under "py2" numpy's integer power with a negative
\* exponent either raises ("py2") or yields 0 ("py2np0", numpy before 1.12)
Builds == {"py3", "py2", "py2np0"}

-----------------------------------------------------------------------------
(* Floating-point values *)

Fin(v) == [k |-> "fin", v |-> v]
NaN == [k |-> "nan", v |-> 0]
Inf == [k |-> "inf", v |-> 0]

IsNaN(f) == f.k = "nan"
IsInf(f) == f.k = "inf"
IsZero(f) == f.k = "fin" /\ f.v = 0

\* f + g
FAdd(f, g) ==
    IF IsNaN(f) \/ IsNaN(g) THEN NaN
    ELSE IF IsInf(f) \/ IsInf(g) THEN Inf
    ELSE Fin(f.v + g.v)

\* f * r for an integer r (a whole number of units)
FScale(f, r) ==
    IF IsNaN(f) THEN NaN
    ELSE IF IsInf(f) THEN (IF r = 0 THEN NaN ELSE Inf)
    ELSE Fin(f.v * r)

RECURSIVE SeqSum(_)
SeqSum(s) == IF s = <<>> THEN 0 ELSE Head(s) + SeqSum(Tail(s))

Min2(a, b) == IF a <= b THEN a ELSE b

\* floor of the square root of a natural number
RECURSIVE ISqrtIn(_, _, _)
ISqrtIn(v, lo, hi) ==
    IF lo >= hi THEN lo
    ELSE LET mid == (lo + hi + 1) \div 2
         IN IF mid * mid <= v THEN ISqrtIn(v, mid, hi) ELSE ISqrtIn(v, lo, mid - 1)

ISqrt(v) == ISqrtIn(v, 0, Min2(v, 46340))


-----------------------------------------------------------------------------
(* The data matrix: a sequence of rows (kernels), each a sequence of       *)
(* feature values.  X.shape = (NumKernels(X), NumFeatures(X)).             *)

NumKernels(X) == Len(X)
NumFeatures(X) == Len(X[1])

DataMatrices(N, d) == [1..N -> [1..d -> DataVals]]

Column(X, j) == [i \in 1..Len(X) |-> X[i][j]]

\* np.std(col) in thousandths: sqrt(N * sum(x^2) - sum(x)^2) / N
Std(col) ==
    LET N == Len(col)
        s1 == SeqSum(col)
        s2 == SeqSum([i \in 1..N |-> col[i] * col[i]])
    IN ISqrt((N * s2 - s1 * s1) * 1000000) \div N

\* np.std(X, axis=1) of the transposed data: one value per feature
StdVector(X) == [j \in 1..NumFeatures(X) |-> Std(Column(X, j))]

\* the k-th smallest (k = 0, 1, ...) of all entries of X, flattened
KthSmallest(X, k) ==
    LET cells == (1..NumKernels(X)) \X (1..NumFeatures(X))
        CountLE(v) == Cardinality({c \in cells : X[c[1]][c[2]] <= v})
        vals == {X[c[1]][c[2]] : c \in cells}
    IN CHOOSE v \in vals :
           /\ CountLE(v) >= k + 1
           /\ \A u \in vals : u < v => CountLE(u) < k + 1

\* four times the q-th quartile (q = 1 or 3) of all entries of X, with
\* numpy's linear interpolation at position q/4 * (M - 1)
Quartile4(X, q) ==
    LET M == NumKernels(X) * NumFeatures(X)
        pos4 == q * (M - 1)
        a == pos4 \div 4
        r == pos4 % 4
        lo == KthSmallest(X, a)
        hi == IF r = 0 THEN lo ELSE KthSmallest(X, a + 1)
    IN 4 * lo + r * (hi - lo)

\* .7413 * stats.iqr(np.transpose(X)) in thousandths.  stats.iqr is called
\* without an axis, so the interquartile range is that of the flattened
\* data: one scalar for all features.
IqrSig(X) == (7413 * (Quartile4(X, 3) - Quartile4(X, 1))) \div 40

\* N ^ (-1/k) in thousandths, k = 4 + dim
PowNegRoot(N, k) ==
    CASE k = 5 -> (CASE N = 2 -> 870 [] N = 3 -> 802 [] N = 4 -> 757 [] OTHER -> 724)
      [] k = 6 -> (CASE N = 2 -> 890 [] N = 3 -> 832 [] N = 4 -> 793 [] OTHER -> 764)
      [] OTHER -> (CASE N = 2 -> 905 [] N = 3 -> 854 [] N = 4 -> 820 [] OTHER -> 794)

\* np.power(N, -1 / (4 + dim)).  Python 3 divides truly: the exponent is
\* -1/(4+dim).  Python 2 divides with floor: the exponent is the integer -1
\* and numpy's integer power either raises ValueError or (before 1.12)
\* yields 0 for N >= 2.
PowerFactor(b, N, dim) ==
    CASE b = "py3" -> [raised |-> FALSE, v |-> PowNegRoot(N, 4 + dim)]
      [] b = "py2np0" -> [raised |-> FALSE, v |-> 0]
      [] OTHER -> [raised |-> TRUE, v |-> 0]

Raised(d) == [raised |-> TRUE, h |-> [j \in 1..d |-> NaN]]
Returned(h) == [raised |-> FALSE, h |-> h]

\* AKDE._ksizeROT (noIQR = 0: only the else branch runs)
ksizeROT(b, X) ==
    LET dim == NumFeatures(X)
        N == NumKernels(X)
        sig == StdVector(X)
        pooled == IqrSig(X)
        iqrSig == IF pooled = 0 THEN sig ELSE [j \in 1..dim |-> pooled]
        f == PowerFactor(b, N, dim)
    IN IF f.raised THEN Raised(dim)
       ELSE Returned([j \in 1..dim |-> Fin((Min2(sig[j], iqrSig[j]) * f.v) \div 1000)])

\* the values the Hall plug-in formula can return for one feature when its
\* pairwise differences are finite: the curvature integrals decide it
HallVals == {NaN, Inf, Fin(0), Fin(300)}

\* AKDE._ksizeHall.  lamS is the scalar pooled IQR, or the vector sig when
\* that IQR is 0; BW = 1.0592 * lamS * power is tiled with np.tile(BW, (1, N2)),
\* which gives shape (1, N2) for the scalar and (1, N1*N2) for the vector, and
\* the division of the (N1, N2) differences by it broadcasts only when
\* N1 = 1 or BW came from the scalar.  A zero in BW makes every scaled
\* difference NaN or infinite, and then I2, I3 and h are NaN.  Otherwise the
\* result is curve, the value of the plug-in formula.
ksizeHall(b, X, curve) ==
    LET N1 == NumFeatures(X)
        N2 == NumKernels(X)
        sig == StdVector(X)
        pooled == IqrSig(X)
        isVector == pooled = 0
        lamS == IF isVector THEN sig ELSE [j \in 1..N1 |-> pooled]
        f == PowerFactor(b, N2, N1)
        BW == [j \in 1..N1 |-> (10592 * ((lamS[j] * f.v) \div 1000)) \div 10000]
    IN IF f.raised THEN Raised(N1)
       ELSE IF isVector /\ N1 > 1 THEN Raised(N1)
       ELSE IF \E j \in 1..N1 : BW[j] = 0 THEN Returned([j \in 1..N1 |-> NaN])
       ELSE Returned(curve)


-----------------------------------------------------------------------------
(* AKDE.__init__ *)

\* an optional argument: None, or a value
None == [given |-> FALSE, val |-> <<>>]
Some(x) == [given |-> TRUE, val |-> x]

\* a fallback test that forgets the infinite values
NeedsFallbackNaNOnly(h) == \E j \in 1..Len(h) : IsNaN(h[j])

\* line 34: np.isnan(bw).any() or np.isinf(bw).any()
NeedsFallback(h) == \E j \in 1..Len(h) : IsNaN(h[j]) \/ IsInf(h[j])

\* a constructor that keeps the selected bandwidth as it is
ZeroSubstituteNone(bw) == bw

\* line 37: bw + (bw == 0.) * 0.001
ZeroSubstitute(bw) ==
    [j \in 1..Len(bw) |-> FAdd(bw[j], IF IsZero(bw[j]) THEN Fin(1) ELSE Fin(0))]

\* line 40: the bandwidth handed to KDEMultivariate is the local bw, the
\* vector before the substitution of line 37
KdeBandwidth(selected, substituted) == selected

NoObject ==
    [state |-> "none", data |-> <<>>, weights |-> <<>>, bw |-> <<>>,
     kdeBw |-> <<>>, bwArg |-> None, hall |-> <<>>, rot |-> <<>>, path |-> "none"]

\* The object AKDE(data, weights, bw) leaves behind.  curve is the value of
\* the Hall formula on this data.  path, hall and rot record which selector
\* produced the bandwidth and what each returned.  Weights are held as
\* whole numbers proportional to the weights (np.repeat(1./N, N) is all 1).
\* KDEMultivariate refuses data with no more rows than columns.
AKDEInit(b, data, weightsArg, bwArg, curve) ==
    LET N == NumKernels(data)
        d == NumFeatures(data)
        weights == IF weightsArg.given THEN weightsArg.val ELSE [i \in 1..N |-> 1]
        hall == IF bwArg.given THEN Raised(d) ELSE ksizeHall(b, data, curve)
        fallback == ~bwArg.given /\ ~hall.raised /\ NeedsFallback(hall.h)
        rot == IF fallback THEN ksizeROT(b, data) ELSE Raised(d)
        selected == IF bwArg.given THEN bwArg.val
                    ELSE IF fallback THEN rot.h ELSE hall.h
        substituted == ZeroSubstitute(selected)
        failed == \/ ~bwArg.given /\ hall.raised
                  \/ fallback /\ rot.raised
                  \/ N <= d
    IN [state |-> IF failed THEN "raised" ELSE "fitted",
        data |-> data,
        weights |-> weights,
        bw |-> IF failed THEN <<>> ELSE substituted,
        kdeBw |-> IF failed THEN <<>> ELSE KdeBandwidth(selected, substituted),
        bwArg |-> bwArg,
        hall |-> IF bwArg.given \/ hall.raised THEN <<>> ELSE hall.h,
        rot |-> IF fallback /\ ~rot.raised THEN rot.h ELSE <<>>,
        path |-> IF bwArg.given THEN "given"
                 ELSE IF hall.raised THEN "hall raised"
                 ELSE IF fallback THEN "rot" ELSE "hall"]

-----------------------------------------------------------------------------
(* AKDE.predict *)

\* the largest number of points passed to AKDE.predict
MaxPoints == 2

\* density values KDEMultivariate.pdf returns at a point when every
\* bandwidth is non-zero (thousandths)
Densities == {Fin(0), Fin(400)}

\* KDEMultivariate.pdf at one point: the Gaussian product kernel divides by
\* each bandwidth, so a zero bandwidth gives NaN; otherwise the density is
\* raw, the value of the estimate at the point
Pdf(kdeBw, raw) ==
    IF \E j \in 1..Len(kdeBw) : IsZero(kdeBw[j]) THEN NaN ELSE raw

NoPredict == [called |-> FALSE, usedBw |-> <<>>, probs |-> <<>>]

\* AKDE.predict(data): self._kde.pdf(data)
Predict(obj, raws) ==
    [called |-> TRUE,
     usedBw |-> obj.kdeBw,
     probs |-> [m \in 1..Len(raws) |-> Pdf(obj.kdeBw, raws[m])]]


-----------------------------------------------------------------------------
(* AKDE.sample *)

\* np.random.uniform draws are multiples of 1/Grid in [0, 1): 0 .. Grid-1
Grid == 3
\* the largest whole-number weight of a kernel
MaxWeight == 1

\* Python's list[k] and ndarray[k] for k >= 0: positions count from 0
At(s, k) == s[k + 1]
InRange(s, k) == k >= 0 /\ k < Len(s)

\* np.cumsum(self._weights)
RECURSIVE CumSum(_)
CumSum(w) ==
    IF w = <<>> THEN <<>>
    ELSE LET front == CumSum(SubSeq(w, 1, Len(w) - 1))
         IN Append(front, (IF front = <<>> THEN 0 ELSE front[Len(front)]) + w[Len(w)])

\* np.amax(w)
RECURSIVE Amax(_)
Amax(w) ==
    IF Len(w) = 1 THEN w[1]
    ELSE LET m == Amax(Tail(w)) IN IF w[1] >= m THEN w[1] ELSE m

\* np.sort(u): insertion of each draw into the sorted rest
RECURSIVE Insert(_, _)
Insert(x, s) ==
    IF s = <<>> THEN <<x>>
    ELSE IF x <= Head(s) THEN <<x>> \o s
    ELSE <<Head(s)>> \o Insert(x, Tail(s))

RECURSIVE Sort(_)
Sort(u) == IF u = <<>> THEN <<>> ELSE Insert(Head(u), Sort(Tail(u)))

\* line 70: w[i] > t[ii], with w[i] = cum[i] / amax(cum) and t[ii] = tv / Grid
Exceeds(cum, i, tv) == At(cum, i) * Grid > tv * Amax(cum)

\* line 71: self._data[i, :] + (bw[i, :] * randnums[ii, :]); bw is self._bw
\* tiled over the kernels
Emitted(obj, i, noiseRow) ==
    [j \in 1..NumFeatures(obj.data) |->
        FAdd(Fin(At(obj.data, i)[j] * 1000), FScale(obj.bw[j], noiseRow[j]))]

\* line 66: the position of the first threshold the walk reads
FirstThreshold == 1

\* lines 67-72: the walk over the kernels from kernel i and threshold ii.
\* points is the output matrix so far, emits the list of assignments of
\* line 71 so far (row written, kernel, threshold read).  An index outside
\* a list or the matrix raises IndexError.
RECURSIVE Walk(_, _, _, _, _, _, _)
Walk(obj, cum, t, noise, i, ii, acc) ==
    IF i >= NumKernels(obj.data) THEN acc
    ELSE IF ~InRange(t, ii) THEN [acc EXCEPT !.raised = TRUE]
    ELSE IF Exceeds(cum, i, At(t, ii))
         THEN IF ~InRange(acc.points, ii) THEN [acc EXCEPT !.raised = TRUE]
              ELSE Walk(obj, cum, t, noise, i, ii + 1,
                        [acc EXCEPT !.points[ii + 1] = Emitted(obj, i, At(noise, ii)),
                                    !.emits = Append(@, [row |-> ii, kernel |-> i, threshold |-> ii])])
         ELSE Walk(obj, cum, t, noise, i + 1, ii, acc)

NoSample ==
    [called |-> FALSE, n |-> 0, t |-> <<>>, noise |-> <<>>, raised |-> FALSE,
     points |-> <<>>, emits |-> <<>>]

\* AKDE.sample(n) with uniform draws u and normal draws noise.  The two
\* assertions of lines 74-75 compare the shape of points with n and d.
Sample(obj, n, u, noise) ==
    LET d == NumFeatures(obj.data)
        zeros == [r \in 1..n |-> [j \in 1..d |-> Fin(0)]]
        cum == CumSum(obj.weights)
        t == Append(Sort(u), Grid)
        walked == Walk(obj, cum, t, noise, 0, FirstThreshold,
                       [raised |-> FALSE, points |-> zeros, emits |-> <<>>])
        asserts == Len(walked.points) = n
                   /\ \A r \in 1..Len(walked.points) : Len(walked.points[r]) = d
    IN [called |-> TRUE, n |-> n, t |-> t, noise |-> noise,
        raised |-> walked.raised \/ ~asserts,
        points |-> IF walked.raised \/ ~asserts THEN <<>> ELSE walked.points,
        emits |-> walked.emits]


-----------------------------------------------------------------------------
(* WebsiteFingerprintModeler: Python values of the clusters argument *)

\* a Python int, and a Python list of values
PyInt(f) == [t |-> "int", v |-> f, items |-> <<>>]
PyList(xs) == [t |-> "list", v |-> 0, items |-> xs]

\* isinstance(x, Iterable)
IsIterable(x) == x.t = "list"

\* a normalisation that wraps a bare value once only
NormalizeOnce(clusters) ==
    LET c1 == IF ~IsIterable(clusters) THEN PyList(<<clusters>>) ELSE clusters
    IN [raised |-> Len(c1.items) = 0, val |-> c1]

\* lines 130-133.  clusters[0] raises IndexError on an empty list.
NormalizeClusters(clusters) ==
    LET c1 == IF ~IsIterable(clusters) THEN PyList(<<clusters>>) ELSE clusters
    IN IF Len(c1.items) = 0 THEN [raised |-> TRUE, val |-> c1]
       ELSE [raised |-> FALSE,
             val |-> IF ~IsIterable(c1.items[1]) THEN PyList(<<c1>>) ELSE c1]

-----------------------------------------------------------------------------
(* WebsiteFingerprintModeler._sample and information_leakage *)

\* the largest number of sites of the data
MaxSites == 3
\* the largest sample_size of a modeler
MaxBudget == 3

\* f * g and f / g on floating-point values (numpy: 0/0 is NaN, x/0 is inf)
FMul(f, g) ==
    IF IsNaN(f) \/ IsNaN(g) THEN NaN
    ELSE IF IsInf(f) \/ IsInf(g) THEN (IF IsZero(f) \/ IsZero(g) THEN NaN ELSE Inf)
    ELSE Fin((f.v * g.v) \div 1000)

FDiv(f, g) ==
    IF IsNaN(f) \/ IsNaN(g) THEN NaN
    ELSE IF IsInf(f) THEN (IF IsInf(g) THEN NaN ELSE Inf)
    ELSE IF IsInf(g) THEN Fin(0)
    ELSE IF g.v = 0 THEN (IF f.v = 0 THEN NaN ELSE Inf)
    ELSE Fin((f.v * 1000) \div g.v)

\* sum(list) of floating-point values
RECURSIVE FSum(_)
FSum(s) == IF s = <<>> THEN Fin(0) ELSE FAdd(Head(s), FSum(Tail(s)))

\* f < c and f > c for a finite constant c in thousandths: every comparison
\* with NaN is False
FLess(f, c) == f.k = "fin" /\ f.v < c
FGreater(f, c) == f.k = "inf" \/ (f.k = "fin" /\ f.v > c)

\* line 144: 1/float(len(self.data.sites)), as the fraction num/den
Prior(k) == [num |-> 1, den |-> k]
PriorFloat(p) == Fin((1000 * p.num) \div p.den)

\* line 141: h(x) = -x * log2(x) in thousandths of a bit, at the
\* probabilities 1/m (in thousandths) of a distribution uniform on m sites
ShannonTerm(x) ==
    CASE x.v >= 1000 -> 0
      [] x.v >= 500 -> 500
      [] x.v >= 333 -> 528
      [] x.v >= 250 -> 500
      [] x.v >= 200 -> 464
      [] OTHER -> 431

\* lines 145 and 180: sum([h(p) for p in probs if p > 0])
RECURSIVE Entropy(_)
Entropy(probs) ==
    IF probs = <<>> THEN 0
    ELSE (IF FGreater(Head(probs), 0) THEN ShannonTerm(Head(probs)) ELSE 0)
         + Entropy(Tail(probs))

\* a per-site count computed with one site too many in the prior
NumPerSiteShort(sample_size, prior) == (sample_size * prior.num) \div (prior.den + 1)

\* a per-site count that rounds up
NumPerSiteCeil(sample_size, prior) ==
    (sample_size * prior.num + prior.den - 1) \div prior.den

\* line 95: int(sample_size * web_priors[site])
NumPerSite(sample_size, prior) == (sample_size * prior.num) \div prior.den

\* lines 97-100 for one site: the rows mkde.sample(num) returns, each with
\* the site whose model drew it, its row in that draw and where it fell
\* (regions, one per row of the pool, from position pos on)
SiteRows(site, num, regions, pos) ==
    IF num > 0
    THEN [r \in 1..num |-> [site |-> site, row |-> r - 1, region |-> regions[pos + r]]]
    ELSE <<>>

\* a pool whose rows are put in an order that depends on the draws (a
\* shuffle of group_samples): reversed when its first draw falls in the tail
GroupSamplesShuffled(k, sample_size, regions, i, acc) ==
    LET n == (sample_size * Prior(k).num) \div Prior(k).den
        total == (k - i + 1) * n
        rows == [p \in 1..total |->
                    [site |-> i - 1 + ((p - 1) \div n), row |-> (p - 1) % n,
                     region |-> regions[Len(acc) + p]]]
    IN acc \o (IF total > 0 /\ regions[Len(acc) + 1] = "tail"
               THEN [p \in 1..total |-> rows[total + 1 - p]]
               ELSE rows)

\* lines 91-101 for one cluster, from site index i on: group_samples
RECURSIVE GroupSamples(_, _, _, _, _)
GroupSamples(k, sample_size, regions, i, acc) ==
    IF i > k THEN acc
    ELSE GroupSamples(k, sample_size, regions, i + 1,
            acc \o SiteRows(i - 1, NumPerSite(sample_size, Prior(k)), regions, Len(acc)))

\* lines 97-99: what is asked of each site's model: sample(num), or nothing
Requests(k, sample_size) ==
    [i \in 1..k |->
        LET num == NumPerSite(sample_size, Prior(k))
        IN [asked |-> num > 0, n |-> num]]

\* the size of the pool _sample builds for one cluster: num rows from each
\* of the k sites
PoolSize(k, sample_size) == k * NumPerSite(sample_size, Prior(k))

\* where a drawn sample falls: in the "own" part of its site's density, or
\* in the "tail" where every site's density is 0
Regions == {"own", "tail"}

\* mkde.predict at one sample.  A sample in the tail has density 0 under
\* every site; otherwise its density is 1 under the site that drew it and,
\* when the sites' distributions overlap, under every other site too.
Density(overlap, site, x) ==
    IF x.region = "tail" THEN Fin(0)
    ELSE IF overlap \/ site = x.site THEN Fin(1000) ELSE Fin(0)

\* lines 151-152: cluster_prob_set[j][i][s]
ClusterProbSet(overlap, k, pools) ==
    [j \in 1..Len(pools) |->
        [i \in 1..k |->
            [s \in 1..Len(pools[j]) |-> Density(overlap, i - 1, pools[j][s])]]]

\* lines 158-160: the product over the clusters, for site i and sample s
RECURSIVE JointProb(_, _, _, _)
JointProb(cps, i, s, j) ==
    IF j > Len(cps) THEN Fin(1000) ELSE FMul(cps[j][i][s], JointProb(cps, i, s, j + 1))

\* lines 156-164: prob_set after the transpose: [sample][site]
ProbSet(cps, k) ==
    [s \in 1..Len(cps[1][1]) |-> [i \in 1..k |-> JointProb(cps, i, s, 1)]]

\* lines 167-168
ProbTemp(probSet, k) ==
    [s \in 1..Len(probSet) |-> [i \in 1..k |-> FMul(probSet[s][i], PriorFloat(Prior(k)))]]

\* lines 171-172
ProbIndiv(probTemp) ==
    [s \in 1..Len(probTemp) |->
        [i \in 1..Len(probTemp[s]) |-> FDiv(probTemp[s][i], FSum(probTemp[s]))]]

\* line 176: sum(prob_inst) < 0.99
WarnsAbout(total) == FLess(total, 990)

\* a handler that catches whatever is raised (a bare "except:")
CatchesEverything(exc) == TRUE

\* lines 195-199: "except not KeyboardInterrupt" names the value False, which
\* matches no exception
Catches(exc) == FALSE

\* the steps of information_leakage, in order, as numbers 1..8:
\* 1 normalise the argument (130-135), 2 build the models (138),
\* 3 class entropy (141-145), 4 sample (148), 5 predict (151-152),
\* 6 combine the clusters (156-164), 7 posteriors and the check of their
\* sums (167-177), 8 entropies, their average and the leakage (180-193)
LastStep == 8

NoFault == [step |-> 0, kind |-> "none"]

\* The step at which the computation itself raises, 0 when it does not:
\* IndexError at clusters[0] of an empty list (step 1); an empty cluster
\* leaves X = None in _make_kde and the estimator cannot be fitted (step 2);
\* an empty pool makes len(entropies) zero in the division of line 184
\* (step 8).
OwnRaise(norm, k, sample_size) ==
    IF norm.raised THEN [step |-> 1, kind |-> "IndexError"]
    ELSE IF \E j \in 1..Len(norm.val.items) : Len(norm.val.items[j].items) = 0
         THEN [step |-> 2, kind |-> "AttributeError"]
    ELSE IF PoolSize(k, sample_size) = 0
         THEN [step |-> LastStep, kind |-> "ZeroDivisionError"]
    ELSE NoFault

\* the exception that ends the try block: the earlier of the computation's
\* own and the one that strikes from outside (fault)
FirstRaise(own, fault) ==
    IF fault.step # 0 /\ (own.step = 0 \/ fault.step <= own.step) THEN fault ELSE own

NoLeak ==
    [called |-> FALSE, input |-> PyInt(0), inside |-> NoFault,
     outcome |-> "none", exc |-> "none", value |-> [kind |-> "none", v |-> 0],
     log |-> <<>>, normalized |-> FALSE, clusters |-> PyInt(0),
     requests |-> <<>>, pools |-> <<>>, sums |-> <<>>]

NoModeler == [sites |-> 0, sample_size |-> 0, overlap |-> FALSE]

\* WebsiteFingerprintModeler.information_leakage(clusters) on modeler m
\* under interpreter b.  fault is an exception that strikes from outside at
\* a step (a KeyboardInterrupt, or an error of a collaborator); regions[j]
\* says where each sample of cluster j's pool falls.
InformationLeakage(b, m, input, fault, regions) ==
    LET k == m.sites
        norm == NormalizeClusters(input)
        inside == FirstRaise(OwnRaise(norm, k, m.sample_size), fault)
        Done(step) == inside.step = 0 \/ step < inside.step
        nc == Len(norm.val.items)
        H_C == Entropy([i \in 1..k |-> PriorFloat(Prior(k))])
        pools == [j \in 1..nc |-> GroupSamples(k, m.sample_size, regions[j], 1, <<>>)]
        cps == ClusterProbSet(m.overlap, k, pools)
        probIndiv == ProbIndiv(ProbTemp(ProbSet(cps, k), k))
        sums == [s \in 1..Len(probIndiv) |-> FSum(probIndiv[s])]
        warnings == SelectSeq([s \in 1..Len(sums) |-> [level |-> "warn", s |-> s]],
                              LAMBDA e : WarnsAbout(sums[e.s]))
        entropies == [s \in 1..Len(probIndiv) |-> Entropy(probIndiv[s])]
        H_CF == SeqSum(entropies) \div Len(entropies)
        leakage == H_C - H_CF
        caught == inside.step # 0 /\ Catches(inside.kind)
        log == (IF Done(1) THEN <<[level |-> "debug", s |-> 0]>> ELSE <<>>)
               \o (IF Done(7) THEN warnings ELSE <<>>)
               \o (IF Done(LastStep) THEN <<[level |-> "debug", s |-> 0]>> ELSE <<>>)
               \o (IF caught THEN <<[level |-> "exception", s |-> 0]>> ELSE <<>>)
    IN [called |-> TRUE,
        input |-> input,
        inside |-> inside,
        outcome |-> IF inside.step = 0 \/ caught THEN "returned" ELSE "raised",
        exc |-> IF inside.step = 0 \/ caught THEN "none"
                ELSE IF b = "py3" THEN "TypeError" ELSE inside.kind,
        value |-> IF inside.step = 0 THEN [kind |-> "float", v |-> leakage]
                  ELSE IF caught THEN [kind |-> "None", v |-> 0]
                  ELSE [kind |-> "none", v |-> 0],
        log |-> log,
        normalized |-> Done(1),
        clusters |-> IF Done(1) THEN norm.val ELSE PyInt(0),
        requests |-> IF Done(4) THEN [j \in 1..nc |-> Requests(k, m.sample_size)] ELSE <<>>,
        pools |-> IF Done(4) THEN pools ELSE <<>>,
        sums |-> IF Done(7) THEN sums ELSE <<>>]

\* the clusters arguments: a feature index, a list of feature indices, a
\* list of clusters
FeatureLists == {PyList(<<>>), PyList(<<PyInt(0)>>), PyList(<<PyInt(0), PyInt(1)>>)}

ClusterInputs ==
    {PyInt(0), PyInt(1)}
    \cup FeatureLists
    \cup {PyList(<<c>>) : c \in FeatureLists}
    \cup {PyList(<<c1, c2>>) : c1 \in FeatureLists, c2 \in FeatureLists}

Faults ==
    {NoFault} \cup [step : 1..LastStep, kind : {"KeyboardInterrupt", "RuntimeError"}]

\* the region draws of a call: one per sample of every cluster's pool
RegionDraws(input, k, sample_size) ==
    LET norm == NormalizeClusters(input)
    IN IF norm.raised THEN {<<>>}
       ELSE [1..Len(norm.val.items) -> [1..PoolSize(k, sample_size) -> Regions]]

\* fingerprinter.information_leakage(clusters), also fingerprinter(features)
\* (lines 201-202).  The call changes nothing of the modeler, so one call
\* per modeler shows every result a call can have.
Call ==
    /\ ~leakCall.called
    /\ \E input \in ClusterInputs, fault \in Faults :
        \E regions \in RegionDraws(input, modeler.sites, modeler.sample_size) :
            /\ fault.step # 0 =>
                 \A j \in 1..Len(regions) : \A p \in 1..Len(regions[j]) : regions[j][p] = "own"
            /\ leakCall' = InformationLeakage(build, modeler, input, fault, regions)
    /\ UNCHANGED <<build, akde, sampleCall, predictCall, modeler, measure>>

\* no run of individual_measure, and no checkpoint file
NoMeasure ==
    [pc |-> "idle", size |-> 0, checkpoint |-> FALSE, file |-> <<>>, start |-> <<>>,
     lines |-> 0, leakage_indiv |-> <<>>, next |-> 0, measured |-> <<>>,
     exc |-> "none", runs |-> 0]

\* WebsiteFingerprintModeler(data, sample_size): the number of sites of the
\* data, whether the sites' distributions overlap, and the sample budget
Init ==
    /\ build \in Builds
    /\ akde = NoObject
    /\ sampleCall = NoSample
    /\ predictCall = NoPredict
    /\ modeler \in [sites : 1..MaxSites, sample_size : 1..MaxBudget, overlap : BOOLEAN]
    /\ leakCall = NoLeak
    /\ measure = NoMeasure

Next == Call

Spec == Init /\ [][Next]_vars

-----------------------------------------------------------------------------
(* Construction, sampling and prediction as steps of a client of AKDE *)

GivenBandwidths(d) == {Some(bw) : bw \in [1..d -> {Fin(0), Fin(500)}]}

GivenWeights(N) ==
    {Some(w) : w \in {v \in [1..N -> 0..MaxWeight] : \E i \in 1..N : v[i] > 0}}

\* obj = AKDE(data, weights, bw)
Construct(data, weightsArg, bwArg, curve) ==
    /\ akde.state = "none"
    /\ akde' = AKDEInit(build, data, weightsArg, bwArg, curve)
    /\ sampleCall' = NoSample
    /\ predictCall' = NoPredict
    /\ UNCHANGED <<build, modeler, leakCall, measure>>

\* obj.sample(n).  Neither sample nor predict changes the object, so one
\* call of each per object shows every result a call can have.
DoSample(n, u, noise) ==
    /\ akde.state = "fitted"
    /\ ~sampleCall.called
    /\ sampleCall' = Sample(akde, n, u, noise)
    /\ UNCHANGED <<build, akde, predictCall, modeler, leakCall, measure>>

\* obj.predict(points)
DoPredict(raws) ==
    /\ akde.state = "fitted"
    /\ ~predictCall.called
    /\ predictCall' = Predict(akde, raws)
    /\ UNCHANGED <<build, akde, sampleCall, modeler, leakCall, measure>>

InitKDE ==
    /\ build \in Builds
    /\ akde = NoObject
    /\ sampleCall = NoSample
    /\ predictCall = NoPredict
    /\ modeler = NoModeler
    /\ leakCall = NoLeak
    /\ measure = NoMeasure

\* Fitting on every data matrix, with and without a bandwidth, and
\* evaluating densities
FitConstruct ==
    /\ akde.state = "none"
    /\ \E N \in 2..MaxKernels, d \in Dims :
        \E data \in DataMatrices(N, d),
           bwArg \in {None} \cup GivenBandwidths(d),
           curve \in [1..d -> HallVals] :
            /\ bwArg.given => curve = [j \in 1..d |-> Fin(300)]
            /\ Construct(data, None, bwArg, curve)

FitPredict ==
    /\ akde.state = "fitted" /\ ~predictCall.called
    /\ \E M \in 1..MaxPoints : \E raws \in [1..M -> Densities] : DoPredict(raws)

NextFit == FitConstruct \/ FitPredict

SpecFit == InitKDE /\ [][NextFit]_vars

\* Sampling from models fitted on a fixed data pattern under every weight
\* vector
PatternData(N, d) == [i \in 1..N |-> [j \in 1..d |-> (i + j) % 2]]

\* np.random.normal draws (line 58) in whole units: -1, 0 or 1
NoiseMatrices(n, d) ==
    {[r \in 1..n |-> [j \in 1..d |-> ((r + j + s) % 3) - 1]] : s \in 0..1}

SampleConstruct ==
    /\ akde.state = "none"
    /\ \E N \in 2..MaxKernels, d \in Dims :
        \E weightsArg \in {None} \cup GivenWeights(N),
           bwArg \in GivenBandwidths(d) :
            /\ N > d
            /\ Construct(PatternData(N, d), weightsArg, bwArg, [j \in 1..d |-> Fin(300)])

SampleDraw ==
    /\ akde.state = "fitted" /\ ~sampleCall.called
    /\ \E n \in 0..MaxSamples :
        \E u \in [1..n -> 0..(Grid - 1)],
           noise \in NoiseMatrices(n, NumFeatures(akde.data)) :
            DoSample(n, u, noise)

NextSample == SampleConstruct \/ SampleDraw

SpecSample == InitKDE /\ [][NextSample]_vars

-----------------------------------------------------------------------------
(* info_leak.py: individual_measure and its checkpoint file *)

\* the largest number of features of the data
MaxFeatures == 21
\* the largest number of runs of individual_measure over one checkpoint file
MaxRuns == 2

\* fingerprinter(feature): the leakage measured for feature number i, in
\* units of the last digit a float holds
Leak(i) == 1000 + 7 * i

\* line 55: '{}\n'.format(str(leakage)).  str gives the shortest text that
\* reads back as the same float, except under numpy before 1.14 (build
\* "py2np0"), where it keeps 12 significant digits and drops the last ones.
Str(b, x) == [text |-> IF b = "py2np0" THEN x - (x % 10) ELSE x]

\* line 30: float(line)
Float(line) == line.text

\* line 51: int(size*0.05)
ProgressInterval(size) == (size * 5) \div 100

\* line 29-30: the lines a file opened with 'a+' yields when iterated.
\* Python 3 positions the stream at the end of the file, so nothing is read;
\* Python 2 (C stdio) reads from the start.
ReadLines(b, file) == IF b = "py3" THEN <<>> ELSE file

\* lines 25-45: open the checkpoint, read the earlier results and choose the
\* features to measure.  map and pool.imap yield the results in feature
\* order; next is the number of the feature whose result comes next.
MeasureOpen ==
    /\ measure.pc = "idle"
    /\ measure.size > 0
    /\ LET past_leaks == IF measure.checkpoint
                         THEN [l \in 1..Len(ReadLines(build, measure.file)) |->
                                  Float(ReadLines(build, measure.file)[l])]
                         ELSE <<>>
       IN measure' = [measure EXCEPT !.pc = "loop",
                                     !.start = measure.file,
                                     !.lines = Len(past_leaks),
                                     !.leakage_indiv = past_leaks,
                                     !.next = Len(past_leaks),
                                     !.measured = <<>>,
                                     !.exc = "none"]
    /\ UNCHANGED <<build, akde, sampleCall, predictCall, modeler, leakCall>>

\* lines 50-56: one turn of the loop over proc_results
MeasureStep ==
    /\ measure.pc = "loop"
    /\ measure.next < measure.size
    /\ IF ProgressInterval(measure.size) = 0
       THEN measure' = [measure EXCEPT !.pc = "raised", !.exc = "ZeroDivisionError"]
       ELSE measure' = [measure EXCEPT
                !.leakage_indiv = Append(@, Leak(measure.next)),
                !.file = IF measure.checkpoint
                         THEN Append(@, Str(build, Leak(measure.next))) ELSE @,
                !.measured = Append(@, measure.next),
                !.next = @ + 1]
    /\ UNCHANGED <<build, akde, sampleCall, predictCall, modeler, leakCall>>

\* a KeyboardInterrupt between two turns of the loop: the run ends, the
\* checkpoint keeps the lines flushed so far (line 56)
MeasureInterrupt ==
    /\ measure.pc = "loop"
    /\ measure.next < measure.size
    /\ measure' = [measure EXCEPT !.pc = "interrupted", !.exc = "KeyboardInterrupt"]
    /\ UNCHANGED <<build, akde, sampleCall, predictCall, modeler, leakCall>>

\* lines 57-62: proc_results is exhausted; close the file and return
MeasureReturn ==
    /\ measure.pc = "loop"
    /\ measure.next >= measure.size
    /\ measure' = [measure EXCEPT !.pc = "returned"]
    /\ UNCHANGED <<build, akde, sampleCall, predictCall, modeler, leakCall>>

\* the program is started again over the same data and checkpoint file
MeasureAgain ==
    /\ measure.pc \in {"returned", "raised", "interrupted"}
    /\ measure.runs < MaxRuns
    /\ measure' = [measure EXCEPT !.pc = "idle", !.runs = @ + 1,
                                  !.leakage_indiv = <<>>, !.measured = <<>>,
                                  !.lines = 0, !.next = 0, !.exc = "none"]
    /\ UNCHANGED <<build, akde, sampleCall, predictCall, modeler, leakCall>>

\* the first run: data of 1..MaxFeatures features, with a fresh checkpoint
\* file or with none
InitMeasure ==
    /\ build \in Builds
    /\ akde = NoObject
    /\ sampleCall = NoSample
    /\ predictCall = NoPredict
    /\ modeler = NoModeler
    /\ leakCall = NoLeak
    /\ \E F \in 1..MaxFeatures, c \in BOOLEAN :
         measure = [NoMeasure EXCEPT !.size = F, !.checkpoint = c, !.runs = 1]

NextMeasure ==
    MeasureOpen \/ MeasureStep \/ MeasureInterrupt \/ MeasureReturn \/ MeasureAgain

SpecMeasure == InitMeasure /\ [][NextMeasure]_vars

-----------------------------------------------------------------------------
(* Properties of information_leakage (specification Spec) *)

\* an entry of the log at the given level
Logged(level) == \E e \in 1..Len(leakCall.log) : leakCall.log[e].level = level

\* C1: an exception other than KeyboardInterrupt raised by any step of
\* information_leakage does not leave the call: it is logged and the call
\* returns None.
C1_ErrorsBecomeNone ==
    (leakCall.called /\ leakCall.inside.step # 0
        /\ leakCall.inside.kind # "KeyboardInterrupt")
    => /\ leakCall.outcome = "returned"
       /\ leakCall.value.kind = "None"
       /\ Logged("exception")

RowsOfSite(pool, site) == Cardinality({p \in 1..Len(pool) : pool[p].site = site})

\* C8: for every cluster and every site _sample asks the site's model for
\* exactly floor(sample_size * prior) samples, and for none when that is 0;
\* the pool of a cluster holds each site's draws in site order, its size is
\* the sum of the per-site counts and at most sample_size.
C8_FlooredCounts ==
    (leakCall.called /\ leakCall.requests # <<>>)
    => \A j \in 1..Len(leakCall.requests) :
         LET req == leakCall.requests[j]
             pool == leakCall.pools[j]
             k == modeler.sites
         IN /\ Len(req) = k
            /\ \A i \in 1..k :
                 /\ req[i].n * k <= modeler.sample_size
                 /\ modeler.sample_size < (req[i].n + 1) * k
                 /\ req[i].asked <=> req[i].n > 0
                 /\ RowsOfSite(pool, i - 1) = req[i].n
                 /\ \A r \in 0..(req[i].n - 1) :
                      \E p \in 1..Len(pool) : pool[p].site = i - 1 /\ pool[p].row = r
            /\ \A p, q \in 1..Len(pool) : p < q => pool[p].site <= pool[q].site
            /\ Len(pool) = SeqSum([i \in 1..k |-> req[i].n])
            /\ Len(pool) <= modeler.sample_size

\* two sites, a budget of three, two clusters: one sample per site, and a
\* pool of two in each cluster
C8_Witness ==
    /\ leakCall.called
    /\ modeler.sites = 2 /\ modeler.sample_size = 3
    /\ Len(leakCall.pools) = 2
    /\ \A j \in 1..2 : Len(leakCall.pools[j]) = 2 /\ leakCall.requests[j][2].asked

\* C9: a warning is logged for a sample exactly when the sum of its
\* normalised posterior vector is below 0.99, above 1.01 or undefined; and
\* a call no exception ends returns a leakage whatever was warned.
C9_WarnsExactlyOnDeviation ==
    (leakCall.called /\ leakCall.inside.step = 0)
    => /\ \A s \in 1..Len(leakCall.sums) :
            (\E e \in 1..Len(leakCall.log) :
                leakCall.log[e] = [level |-> "warn", s |-> s])
            <=> \/ IsNaN(leakCall.sums[s])
                \/ FLess(leakCall.sums[s], 990)
                \/ FGreater(leakCall.sums[s], 1010)
       /\ leakCall.value.kind = "float"

\* what the normalisation of an argument is said to be
IsIntList(x) == IsIterable(x) /\ \A e \in 1..Len(x.items) : ~IsIterable(x.items[e])

ExpectedClusters(x) ==
    IF ~IsIterable(x) THEN PyList(<<PyList(<<x>>)>>)
    ELSE IF IsIntList(x) THEN PyList(<<x>>)
    ELSE x

\* no exception from outside struck while the argument was normalised
NormalizationRan ==
    leakCall.called
    /\ ~(leakCall.inside.step = 1 /\ leakCall.inside.kind \in {"KeyboardInterrupt", "RuntimeError"})

\* C10 as stated: every argument (a feature index f, a list L of feature
\* indices, a list of clusters) is normalised, to [[f]], [L] and itself,
\* and normalising the result again changes nothing.
C10_NormalizationTotal ==
    NormalizationRan
    => /\ leakCall.normalized
       /\ leakCall.clusters = ExpectedClusters(leakCall.input)
       /\ NormalizeClusters(leakCall.clusters) = [raised |-> FALSE, val |-> leakCall.clusters]

\* C10 as amended: the same for every argument that is not an empty list.
C10_NormalizationOfNonEmpty ==
    (NormalizationRan /\ (IsIterable(leakCall.input) => Len(leakCall.input.items) > 0))
    => /\ leakCall.normalized
       /\ leakCall.clusters = ExpectedClusters(leakCall.input)
       /\ NormalizeClusters(leakCall.clusters) = [raised |-> FALSE, val |-> leakCall.clusters]

\* the feature index 1 was normalised to [[1]]
C10_Witness ==
    /\ leakCall.called
    /\ leakCall.input = PyInt(1)
    /\ leakCall.normalized
    /\ leakCall.clusters = PyList(<<PyList(<<PyInt(1)>>)>>)

-----------------------------------------------------------------------------
(* Properties of AKDE.sample (specification SpecSample) *)

\* the kernel a threshold selects: the first, in order, whose normalised
\* cumulative weight exceeds the threshold
SelectedKernel(tv) ==
    LET cum == CumSum(akde.weights)
        hits == {i \in 0..(Len(cum) - 1) : At(cum, i) * Grid > tv * cum[Len(cum)]}
    IN CHOOSE i \in hits : \A h \in hits : i <= h

\* C2: sample(n) returns, for every n >= 0, a matrix of exactly n rows and
\* d columns, and raises nothing.
C2_SampleShape ==
    sampleCall.called
    => /\ ~sampleCall.raised
       /\ Len(sampleCall.points) = sampleCall.n
       /\ \A r \in 1..Len(sampleCall.points) :
            Len(sampleCall.points[r]) = NumFeatures(akde.data)

\* C3: for n >= 1 every one of the n returned rows was emitted: one
\* emission per sorted uniform threshold (positions 0..n-1 of t, the sentinel
\* emitting none), and the row of a threshold is the centre of the kernel the
\* threshold selects plus the row's noise scaled by the bandwidth.
C3_EveryRowEmitted ==
    (sampleCall.called /\ sampleCall.n >= 1 /\ ~sampleCall.raised)
    => /\ Len(sampleCall.emits) = sampleCall.n
       /\ \A r \in 0..(sampleCall.n - 1) :
            \E e \in 1..Len(sampleCall.emits) :
                LET em == sampleCall.emits[e]
                IN /\ em.row = r
                   /\ em.threshold = r
                   /\ em.kernel = SelectedKernel(At(sampleCall.t, r))
                   /\ At(sampleCall.points, r) =
                        Emitted(akde, em.kernel, At(sampleCall.noise, r))

-----------------------------------------------------------------------------
(* Properties of AKDE.__init__ and AKDE.predict (specification SpecFit) *)

IsFinite(f) == f.k = "fin"

\* the bandwidth the constructor selected, before any substitution
SelectedBandwidth ==
    IF akde.path = "given" THEN akde.bwArg.val
    ELSE IF akde.path = "rot" THEN akde.rot
    ELSE akde.hall

\* C4: predict evaluates densities with the fitted bandwidth after the
\* substitution of zeros, the vector sample uses, and never with a zero.
C4_PredictUsesFittedBandwidth ==
    predictCall.called
    => /\ predictCall.usedBw = akde.bw
       /\ \A j \in 1..Len(predictCall.usedBw) : ~IsZero(predictCall.usedBw[j])

\* C5: the fitted bandwidth has no zero component: a zero of the selected
\* bandwidth has become 0.001 and every other component is unchanged,
\* whichever selector produced it.
C5_NoZeroBandwidth ==
    akde.state = "fitted"
    => /\ Len(akde.bw) = NumFeatures(akde.data)
       /\ \A j \in 1..Len(akde.bw) :
            /\ ~IsZero(akde.bw[j])
            /\ IsZero(SelectedBandwidth[j]) => akde.bw[j] = Fin(1)
            /\ ~IsZero(SelectedBandwidth[j]) => akde.bw[j] = SelectedBandwidth[j]

\* a constant feature column: Hall gave NaN, Rule-of-Thumb gave 0, and the
\* fitted bandwidth is 0.001
C5_Witness ==
    /\ akde.state = "fitted"
    /\ akde.path = "rot"
    /\ \A i \in 1..NumKernels(akde.data) : akde.data[i][1] = akde.data[1][1]
    /\ akde.rot = <<Fin(0)>>
    /\ akde.bw = <<Fin(1)>>

\* C6: with no bandwidth given, the fitted bandwidth is Hall's result when
\* all of it is finite and Rule-of-Thumb's result, for the whole vector,
\* when any of it is NaN or infinite; then no NaN or infinity is in the
\* fitted bandwidth, and the constructor does not fail for it.
C6_HallOrRuleOfThumb ==
    (akde.state # "none" /\ ~akde.bwArg.given /\ akde.path # "hall raised")
    => IF \A j \in 1..Len(akde.hall) : IsFinite(akde.hall[j])
       THEN akde.state = "fitted"
               => akde.path = "hall"
                  /\ \A j \in 1..Len(akde.bw) :
                        akde.bw[j] = (IF IsZero(akde.hall[j]) THEN Fin(1) ELSE akde.hall[j])
       ELSE /\ akde.state = "fitted" <=> NumKernels(akde.data) > NumFeatures(akde.data)
            /\ akde.state = "fitted"
               => /\ akde.path = "rot"
                  /\ akde.rot = ksizeROT(build, akde.data).h
                  /\ \A j \in 1..Len(akde.bw) :
                        /\ IsFinite(akde.bw[j])
                        /\ akde.bw[j] = (IF IsZero(akde.rot[j]) THEN Fin(1) ELSE akde.rot[j])

\* two features: Hall was infinite in one and finite in the other, and
\* both bandwidths are Rule-of-Thumb's
C6_Witness ==
    /\ akde.state = "fitted"
    /\ akde.path = "rot"
    /\ Len(akde.hall) = 2
    /\ IsInf(akde.hall[1]) /\ IsFinite(akde.hall[2])
    /\ \A j \in 1..2 : IsFinite(akde.bw[j]) /\ akde.bw[j].v > 1

-----------------------------------------------------------------------------
(* Properties of individual_measure (specification SpecMeasure) *)

\* the checkpoint an earlier run leaves that measured the first k features
CheckpointOfFirst(k) == [i \in 1..k |-> Str(build, Leak(i - 1))]

\* s is the start of t
IsPrefixOf(s, t) == Len(s) <= Len(t) /\ \A i \in 1..Len(s) : s[i] = t[i]

\* C11: started with a checkpoint that holds the results of the first
\* k <= F features, individual_measure raises nothing and returns a list of
\* length F whose entry i is the leakage of feature i; the first k entries
\* were read from the checkpoint, the features k..F-1 and no others were
\* measured, in order, one line was appended for each, and at every moment
\* the checkpoint is the text of a prefix of the result list.
C11_ResumesFromCheckpoint ==
    (/\ measure.pc # "idle"
     /\ measure.checkpoint
     /\ \E k \in 0..measure.size : measure.start = CheckpointOfFirst(k))
    => LET k == Len(measure.start)
           F == measure.size
       IN /\ measure.pc # "raised"
          /\ measure.lines = k
          /\ measure.measured = [j \in 1..Len(measure.measured) |-> k + j - 1]
          /\ Len(measure.file) = k + Len(measure.measured)
          /\ IsPrefixOf(measure.file,
                        [i \in 1..Len(measure.leakage_indiv) |->
                            Str(build, measure.leakage_indiv[i])])
          /\ measure.pc = "returned"
             => /\ Len(measure.leakage_indiv) = F
                /\ \A i \in 1..F : measure.leakage_indiv[i] = Leak(i - 1)

-----------------------------------------------------------------------------
(* Properties of the sample pools (specification Spec) *)

\* C12: with two or more clusters all pools have the same length, and at
\* every index the samples of all pools were drawn from the model of the
\* same site: the site of index s is the same in every pool, so the product
\* over the clusters at index s stays inside one site's stratum.
C12_PoolsAligned ==
    (leakCall.called /\ Len(leakCall.pools) >= 2)
    => \A j1, j2 \in 1..Len(leakCall.pools) :
         /\ Len(leakCall.pools[j1]) = Len(leakCall.pools[j2])
         /\ \A s \in 1..Len(leakCall.pools[j1]) :
              /\ leakCall.pools[j1][s].site = leakCall.pools[j2][s].site
              /\ leakCall.pools[j1][s].row = leakCall.pools[j2][s].row
              /\ leakCall.requests[j1][leakCall.pools[j1][s].site + 1].asked

\* two clusters over two sites whose samples fall differently: index 1 is
\* a sample of site 0 and index 2 a sample of site 1 in both pools, and the
\* leakage was computed from their products
C12_Witness ==
    /\ leakCall.called
    /\ modeler.sites = 2
    /\ Len(leakCall.pools) = 2
    /\ \A j \in 1..2 : Len(leakCall.pools[j]) = 2
                       /\ leakCall.pools[j][1].site = 0
                       /\ leakCall.pools[j][2].site = 1
    /\ leakCall.pools[1][1].region # leakCall.pools[2][1].region
    /\ leakCall.value.kind = "float"

\* the call was given clusters it can model and nothing struck it from
\* outside: what ends it, if anything, is the computation on the pools
UndisturbedCall ==
    /\ leakCall.called
    /\ leakCall.inside.kind \notin {"IndexError", "AttributeError",
                                     "KeyboardInterrupt", "RuntimeError"}

\* C13 as stated: for every positive sample budget and every number of
\* sites the pool of every cluster is non-empty, the average of the
\* per-sample entropies is defined and the call returns a number.
C13_PoolNeverEmpty ==
    UndisturbedCall
    => /\ leakCall.inside.step = 0
       /\ leakCall.outcome = "returned"
       /\ leakCall.value.kind = "float"
       /\ leakCall.pools # <<>>
       /\ \A j \in 1..Len(leakCall.pools) : Len(leakCall.pools[j]) > 0

\* C13 as amended: the same whenever the budget allots at least one sample
\* to a site (the budget is not smaller than the number of sites); every
\* pool then holds at least one sample of every site.
C13_PoolNonEmptyWithinBudget ==
    (UndisturbedCall /\ modeler.sample_size >= modeler.sites)
    => /\ leakCall.inside.step = 0
       /\ leakCall.outcome = "returned"
       /\ leakCall.value.kind = "float"
       /\ leakCall.pools # <<>>
       /\ \A j \in 1..Len(leakCall.pools) :
            /\ Len(leakCall.pools[j]) >= modeler.sites
            /\ \A i \in 0..(modeler.sites - 1) :
                 \E s \in 1..Len(leakCall.pools[j]) : leakCall.pools[j][s].site = i

\* three sites and a budget of three: one sample per site, a pool of three
\* and a leakage
C13_Witness ==
    /\ leakCall.called
    /\ modeler.sites = 3 /\ modeler.sample_size = 3
    /\ leakCall.pools # <<>>
    /\ Len(leakCall.pools[1]) = 3
    /\ leakCall.value.kind = "float"

=============================================================================
